---- MODULE Spec2Model ----
(***************************************************************************)
(* ZFSCollector of zfs_exporter.py: one collector object, the live ZFS     *)
(* hierarchy it reads through libzfs, and the collect() generator that the *)
(* metrics registry drives on every scrape.                                *)
(*                                                                         *)
(* Python strings that the code takes apart (dataset names, raw property   *)
(* values) are sequences of one-character strings; strings that are only   *)
(* compared or formatted are TLA+ strings.                                 *)
(***************************************************************************)
EXTENDS Integers, Sequences, FiniteSets, TLC

\* ---------------------------------------------------------------- bounds
MaxDatasets == 3    \* datasets in the hierarchy
MaxLimit    == 2    \* largest --limit tried
MaxPasses   == 3    \* collect() passes run on the collector

VARIABLES
    limit,              \* self.limit
    exclude,            \* self.exclude
    duration_summary,   \* self.duration_summary: number of observe() calls
    pools,              \* libzfs.ZFS().pools
    datasets,           \* libzfs.ZFS().datasets
    pc,                 \* position of the collect() generator
    pools_metrics,      \* local dict of collect()
    datasets_metrics,   \* local dict of collect()
    ip,                 \* pools already handled by the loop of line 84
    id,                 \* datasets already handled by the loop of line 88
    iy,                 \* series already yielded by lines 103-108
    yielded,            \* series handed to the sink by the current/last pass
    outcome,            \* how the last pass ended
    passes,             \* passes started
    completed,          \* passes that ran to the end of the generator
    prev                \* series of the completed pass before the last one

vars == << limit, exclude, duration_summary, pools, datasets, pc,
           pools_metrics, datasets_metrics, ip, id, iy, yielded, outcome,
           passes, completed, prev >>

\* ------------------------------------------------------- Python helpers
Ok(v)    == [ok |-> TRUE,  val |-> v, err |-> "none"]
Raise(e) == [ok |-> FALSE, val |-> 0, err |-> e]

\* str.split(sep): the pieces of s between occurrences of the character sep
RECURSIVE SplitFrom(_, _, _)
SplitFrom(s, sep, cur) ==
    IF s = << >> THEN << cur >>
    ELSE IF Head(s) = sep THEN << cur >> \o SplitFrom(Tail(s), sep, << >>)
    ELSE SplitFrom(Tail(s), sep, Append(cur, Head(s)))

split(s, sep) == SplitFrom(s, sep, << >>)

IsDigit(c) == c \in {"0", "1", "2", "3", "4", "5", "6", "7", "8", "9"}

DigitVal(c) ==
    CASE c = "0" -> 0 [] c = "1" -> 1 [] c = "2" -> 2 [] c = "3" -> 3
      [] c = "4" -> 4 [] c = "5" -> 5 [] c = "6" -> 6 [] c = "7" -> 7
      [] c = "8" -> 8 [] c = "9" -> 9

RECURSIVE lstrip(_)
lstrip(s) == IF s # << >> /\ Head(s) = " " THEN lstrip(Tail(s)) ELSE s

RECURSIVE rstrip(_)
rstrip(s) ==
    IF s # << >> /\ s[Len(s)] = " " THEN rstrip(SubSeq(s, 1, Len(s) - 1)) ELSE s

\* the digits of an int() literal: single underscores only between digits
RECURSIVE DigitsValue(_, _, _)
DigitsValue(s, acc, afterDigit) ==
    IF s = << >> THEN (IF afterDigit THEN Ok(acc) ELSE Raise("ValueError"))
    ELSE IF IsDigit(Head(s))
         THEN DigitsValue(Tail(s), 10 * acc + DigitVal(Head(s)), TRUE)
    ELSE IF Head(s) = "_" /\ afterDigit THEN DigitsValue(Tail(s), acc, FALSE)
    ELSE Raise("ValueError")

\* int(str): surrounding blanks, an optional sign, decimal digits
int(raw) ==
    LET s    == rstrip(lstrip(raw))
        neg  == s # << >> /\ Head(s) = "-"
        body == IF s # << >> /\ Head(s) \in {"-", "+"} THEN Tail(s) ELSE s
        r    == IF body # << >> /\ IsDigit(Head(body))
                THEN DigitsValue(body, 0, FALSE)
                ELSE Raise("ValueError")
    IN  IF r.ok /\ neg THEN Ok(0 - r.val) ELSE r

\* d.properties[key].parsed
Parsed(o, key) ==
    IF key \in DOMAIN o.properties THEN Ok(o.properties[key].parsed)
    ELSE Raise("KeyError")

\* ----------------------------------------------------- metric families
\* a family object kept from the previous pass instead of a new one
GaugeMetricFamily_kept(name, documentation, labels) ==
    [name |-> name, documentation |-> documentation, labels |-> labels,
     samples |-> IF \E i \in 1..Len(yielded) : yielded[i].name = name
                 THEN yielded[CHOOSE i \in 1..Len(yielded) : yielded[i].name = name].samples
                 ELSE << >>]

\* GaugeMetricFamily(name, documentation, labels=...)
GaugeMetricFamily(name, documentation, labels) ==
    [name |-> name, documentation |-> documentation, labels |-> labels,
     samples |-> << >>]

\* GaugeMetricFamily.add_metric(labels, value)
add_metric(fam, labelvalues, value) ==
    [fam EXCEPT !.samples =
        Append(@, [name   |-> fam.name,
                   labels |-> [i \in 1..Len(fam.labels) |->
                                  << fam.labels[i], labelvalues[i] >>],
                   value  |-> value])]

\* ------------------------------------------------------------ catalogs
pmetrics == << "size", "allocated", "freeing" >>

dsmetrics == << "used_bytes", "usedbydataset_bytes", "available_bytes",
                "atime_enabled", "creation_date", "type" >>

volmetrics == << "volsize_bytes" >>

desc(key) ==
    CASE key = "used_bytes" ->
           "The amount of space consumed by this dataset and all its descendants, in bytes"
      [] key = "usedbydataset_bytes" ->
           "The amount of space used by this dataset itself, excluding descendants, in bytes"
      [] key = "available_bytes" ->
           "The amount of space available to the dataset and all its children, in bytes"
      [] key = "atime_enabled" ->
           "Whether access time updates are enabled (1 = on, 0 = off)"
      [] key = "creation_date" ->
           "The time this dataset was created, in epoch"
      [] key = "type" ->
           "Dataset type: 0=filesystem, 1=volume, 2=snapshot, 3=bookmark"
      [] key = "volsize_bytes" ->
           "logical size of the volume, in bytes"

\* the getter without its .get('atime') guard
AtimeGetter_unguarded(d) ==
    IF "atime" \notin DOMAIN d.properties THEN Raise("KeyError")
    ELSE IF d.properties["atime"].parsed THEN Ok(1) ELSE Ok(0)

\* dsmetrics['atime_enabled']['getter']
AtimeGetter(d) ==
    IF "atime" \in DOMAIN d.properties /\ d.properties["atime"].parsed
    THEN Ok(1) ELSE Ok(0)

\* dsmetrics['creation_date']['getter']
CreationGetter(d) ==
    IF "creation" \in DOMAIN d.properties
    THEN int(d.properties["creation"].rawvalue)
    ELSE Raise("KeyError")

\* the dict literal of dsmetrics['type']['getter'] with its .get default
TypeCode(t) ==
    CASE t = "filesystem" -> 0
      [] t = "volume"     -> 1
      [] t = "snapshot"   -> 2
      [] t = "bookmark"   -> 3
      [] OTHER            -> -1

\* the getter indexing the dict literal instead of calling .get(..., -1)
TypeGetter_indexed(d) ==
    IF "type" \in DOMAIN d.properties
       /\ d.properties["type"].parsed \in {"filesystem", "volume", "snapshot", "bookmark"}
    THEN Ok(TypeCode(d.properties["type"].parsed))
    ELSE Raise("KeyError")

\* dsmetrics['type']['getter']
TypeGetter(d) ==
    IF "type" \in DOMAIN d.properties
    THEN Ok(TypeCode(d.properties["type"].parsed))
    ELSE Raise("KeyError")

\* meta['getter'](ds) for a key of dsmetrics or volmetrics
Getter(key, d) ==
    CASE key = "used_bytes"          -> Parsed(d, "used")
      [] key = "usedbydataset_bytes" -> Parsed(d, "usedbydataset")
      [] key = "available_bytes"     -> Parsed(d, "available")
      [] key = "atime_enabled"       -> AtimeGetter(d)
      [] key = "creation_date"       -> CreationGetter(d)
      [] key = "type"                -> TypeGetter(d)
      [] key = "volsize_bytes"       -> Parsed(d, "volsize")

\* depth = len(ds.name.split('/')) - 1
Depth(name) == Len(split(name, "/")) - 1

\* ds.type.name == 'VOLUME'
IsVolume(ds) == ds.type = "VOLUME"

\* the volume catalog applied to a volume at summary depth too
Emission_volsummary(ds, lim) ==
    IF Depth(ds.name) > lim THEN << >>
    ELSE (IF IsVolume(ds) THEN volmetrics ELSE << >>)
         \o (IF Depth(ds.name) = lim THEN << "used_bytes" >> ELSE dsmetrics)

\* the depth test off by one: >= and > in place of > and ==
Emission_shifted(ds, lim) ==
    IF Depth(ds.name) >= lim THEN << >>
    ELSE IF Depth(ds.name) = lim - 1 THEN << "used_bytes" >>
    ELSE (IF IsVolume(ds) THEN volmetrics ELSE << >>) \o dsmetrics

\* the keys whose getters the loop body of lines 89-99 calls, in call order
Emission(ds, lim) ==
    IF Depth(ds.name) > lim THEN << >>
    ELSE IF Depth(ds.name) = lim THEN << "used_bytes" >>
    ELSE (IF IsVolume(ds) THEN volmetrics ELSE << >>) \o dsmetrics

\* the first getter of keys that raises, or Ok
RECURSIVE FirstRaise(_, _)
FirstRaise(keys, d) ==
    IF keys = << >> THEN Ok(0)
    ELSE IF ~Getter(Head(keys), d).ok THEN Getter(Head(keys), d)
    ELSE FirstRaise(Tail(keys), d)

\* datasets_metrics after the add_metric calls for keys
RECURSIVE AddAll(_, _, _)
AddAll(dm, keys, ds) ==
    IF keys = << >> THEN dm
    ELSE AddAll([dm EXCEPT ![Head(keys)] =
                    add_metric(@, << ds.pool, ds.name >>, Getter(Head(keys), ds).val)],
                Tail(keys), ds)

\* the first property of a pool that is missing, or Ok
RECURSIVE PoolRaise(_, _)
PoolRaise(keys, pool) ==
    IF keys = << >> THEN Ok(0)
    ELSE IF ~Parsed(pool, Head(keys)).ok THEN Parsed(pool, Head(keys))
    ELSE PoolRaise(Tail(keys), pool)

\* every pool series fed from the 'size' property
RECURSIVE AddPoolAll_size(_, _, _)
AddPoolAll_size(pm, keys, pool) ==
    IF keys = << >> THEN pm
    ELSE AddPoolAll_size([pm EXCEPT ![Head(keys)] =
                            add_metric(@, << pool.name >>, Parsed(pool, "size").val)],
                         Tail(keys), pool)

\* pools_metrics after the add_metric calls of lines 85-86 for one pool
RECURSIVE AddPoolAll(_, _, _)
AddPoolAll(pm, keys, pool) ==
    IF keys = << >> THEN pm
    ELSE AddPoolAll([pm EXCEPT ![Head(keys)] =
                        add_metric(@, << pool.name >>, Parsed(pool, Head(keys)).val)],
                    Tail(keys), pool)

Range(s) == {s[i] : i \in 1..Len(s)}

\* pools_metrics as built by lines 63-68
NewPoolsMetrics ==
    [p \in Range(pmetrics) |->
        GaugeMetricFamily("zfs_pool_" \o p \o "_bytes",
                          "ZFS Pool " \o p \o " in bytes", << "pool" >>)]

\* datasets_metrics as built by lines 70-82
NewDatasetsMetrics ==
    [k \in Range(dsmetrics) \cup Range(volmetrics) |->
        GaugeMetricFamily("zfs_dataset_" \o k, desc(k), << "pool", "dataset" >>)]

\* volumes_metrics: created empty at line 56 and never filled
volumes_metrics == << >>

\* the series in the order lines 103-108 yield them
AllSeries ==
    [i \in 1..Len(pmetrics) |-> pools_metrics[pmetrics[i]]]
    \o [i \in 1..Len(dsmetrics) |-> datasets_metrics[dsmetrics[i]]]
    \o [i \in 1..Len(volmetrics) |-> datasets_metrics[volmetrics[i]]]
    \o volumes_metrics

\* ------------------------------------------------- the live hierarchy
Prop(raw, parsed) == [rawvalue |-> raw, parsed |-> parsed]

TANK  == << "t", "a", "n", "k" >>
ZROOT == << "z" >>

\* the dataset k levels below the root of pool tank: tank, tank/d, tank/d/d
RECURSIVE ChainName(_)
ChainName(k) == IF k = 0 THEN TANK ELSE ChainName(k - 1) \o << "/", "d" >>

PoolProps(size, allocated, freeing) ==
    [k \in {"size", "allocated", "freeing"} |->
        CASE k = "size"      -> Prop(<< >>, size)
          [] k = "allocated" -> Prop(<< >>, allocated)
          [] k = "freeing"   -> Prop(<< >>, freeing)]

Without(f, key) == [k \in DOMAIN f \ {key} |-> f[k]]

\* the pool lists libzfs may report
PoolChoices ==
    << << [name |-> TANK, properties |-> PoolProps(1000, 400, 0)] >>,
       << [name |-> TANK,  properties |-> PoolProps(1000, 400, 0)],
          [name |-> ZROOT, properties |-> PoolProps(64, 8, 2)] >>,
       << [name |-> TANK,  properties |-> PoolProps(1000, 400, 0)],
          [name |-> ZROOT, properties |-> Without(PoolProps(64, 8, 2), "freeing")] >> >>

\* properties every dataset of the examples has
CommonProps(type, creation) ==
    [k \in {"used", "usedbydataset", "available", "creation", "type"} |->
        CASE k = "used"          -> Prop(<< "5", "0", "0" >>, 500)
          [] k = "usedbydataset" -> Prop(<< "1", "2", "0" >>, 120)
          [] k = "available"     -> Prop(<< "3", "0", "0" >>, 300)
          [] k = "creation"      -> Prop(creation, creation)
          [] k = "type"          -> Prop(<< >>, type)]

With(f, key, val) == [k \in DOMAIN f \cup {key} |-> IF k = key THEN val ELSE f[k]]

\* the kinds of dataset libzfs may report: (ds.type.name, ds.properties)
Profiles ==
    << [type |-> "FILESYSTEM",
        properties |-> With(CommonProps("filesystem", << "1", "7" >>),
                            "atime", Prop(<< "o", "n" >>, TRUE))],
       [type |-> "VOLUME",
        properties |-> With(CommonProps("volume", << " ", "1", "_", "8" >>),
                            "volsize", Prop(<< "2", "0", "4", "8" >>, 2048))],
       [type |-> "SNAPSHOT",
        properties |-> With(CommonProps("snapshot", << "1", "9" >>),
                            "atime", Prop(<< "o", "f", "f" >>, FALSE))],
       [type |-> "BOOKMARK",
        properties |-> CommonProps("bookmark", << "2", "0" >>)],
       [type |-> "POOL",
        properties |-> With(CommonProps("pool", << "2", "1" >>),
                            "atime", Prop(<< "o", "n" >>, TRUE))],
       [type |-> "FILESYSTEM",
        properties |-> Without(CommonProps("filesystem", << "2", "2" >>), "used")],
       [type |-> "FILESYSTEM",
        properties |-> CommonProps("filesystem", << "-" >>)] >>

\* ZFS nests datasets only under filesystems, and a pool's root is one: in the
\* chain tank, tank/d, ... only the last dataset may be of another type
CanNest(f) ==
    \A k \in DOMAIN f :
        (k = 1 \/ k + 1 \in DOMAIN f) => Profiles[f[k]].type = "FILESYSTEM"

Limits == 0..MaxLimit

\* the --exclude lists tried
ExcludeChoices == { {}, {ChainName(1)} }

\* ------------------------------------------------------------- actions
\* ZFSCollector.__init__, with the hierarchy libzfs will report
Init ==
    /\ limit \in Limits
    /\ exclude \in ExcludeChoices
    /\ duration_summary = 0
    /\ \E c \in 1..Len(PoolChoices) : pools = PoolChoices[c]
    /\ \E n \in 0..MaxDatasets :
         \E f \in [1..n -> 1..Len(Profiles)] :
            /\ CanNest(f)
            /\ datasets = [k \in 1..n |->
                             [name       |-> ChainName(k - 1),
                              pool       |-> TANK,
                              type       |-> Profiles[f[k]].type,
                              properties |-> Profiles[f[k]].properties]]
    /\ pc = "idle"
    /\ pools_metrics = << >>
    /\ datasets_metrics = << >>
    /\ ip = 0 /\ id = 0 /\ iy = 0
    /\ yielded = << >>
    /\ outcome = "none"
    /\ passes = 0
    /\ completed = 0
    /\ prev = << >>

config == << limit, exclude, pools, datasets >>

\* the exception caught and logged, the pass going on to its yields
Abort_swallowed(err) ==
    /\ pc' = "yield"
    /\ outcome' = err
    /\ UNCHANGED << config, duration_summary, yielded, completed,
                    pools_metrics, datasets_metrics, ip, id, iy >>

\* an exception leaves the generator: its locals are gone, nothing more is yielded
Abort(err) ==
    /\ pc' = "idle"
    /\ outcome' = err
    /\ pools_metrics' = << >>
    /\ datasets_metrics' = << >>
    /\ ip' = 0 /\ id' = 0 /\ iy' = 0
    /\ UNCHANGED << config, duration_summary, yielded, completed >>

\* the series of the last completed pass, kept when the sink starts a new scrape
Remember == prev' = IF outcome = "ok" THEN yielded ELSE prev

\* first next() on collect(): lines 20-82
Begin ==
    /\ pc = "idle"
    /\ passes < MaxPasses
    /\ passes' = passes + 1
    /\ Remember
    /\ yielded' = << >>
    /\ outcome' = "running"
    /\ pools_metrics' = NewPoolsMetrics
    /\ datasets_metrics' = NewDatasetsMetrics
    /\ ip' = 0 /\ id' = 0 /\ iy' = 0
    /\ pc' = "collect"
    /\ UNCHANGED << config, duration_summary, completed >>

\* libzfs.ZFS() or its pools/datasets attribute raises at lines 60-61
BeginFails ==
    /\ pc = "idle"
    /\ passes < MaxPasses
    /\ passes' = passes + 1
    /\ Remember
    /\ yielded' = << >>
    /\ outcome' = "DataSourceUnavailable"
    /\ UNCHANGED << config, duration_summary, completed, pc, pools_metrics,
                    datasets_metrics, ip, id, iy >>

\* libzfs raises while the loops of lines 84 and 88 enumerate the hierarchy
EnumerateFails ==
    /\ pc = "collect"
    /\ Abort("DataSourceUnavailable")
    /\ UNCHANGED << passes, prev >>

\* one iteration of the loop over pools, lines 84-86
AddPool ==
    /\ pc = "collect"
    /\ ip < Len(pools)
    /\ LET pool == pools[ip + 1]
       IN  IF PoolRaise(pmetrics, pool).ok
           THEN /\ pools_metrics' = AddPoolAll(pools_metrics, pmetrics, pool)
                /\ ip' = ip + 1
                /\ UNCHANGED << config, duration_summary, pc, datasets_metrics,
                                id, iy, yielded, outcome, completed >>
           ELSE Abort(PoolRaise(pmetrics, pool).err)
    /\ UNCHANGED << passes, prev >>

\* one iteration of the loop over datasets, lines 88-99
AddDataset ==
    /\ pc = "collect"
    /\ ip = Len(pools)
    /\ id < Len(datasets)
    /\ LET ds   == datasets[id + 1]
           keys == Emission(ds, limit)
       IN  IF FirstRaise(keys, ds).ok
           THEN /\ datasets_metrics' = AddAll(datasets_metrics, keys, ds)
                /\ id' = id + 1
                /\ UNCHANGED << config, duration_summary, pc, pools_metrics,
                                ip, iy, yielded, outcome, completed >>
           ELSE Abort(FirstRaise(keys, ds).err)
    /\ UNCHANGED << passes, prev >>

\* the pass timed but observe() never called
Observe_skipped ==
    /\ pc = "collect"
    /\ ip = Len(pools)
    /\ id = Len(datasets)
    /\ duration_summary' = duration_summary
    /\ pc' = "yield"
    /\ UNCHANGED << config, pools_metrics, datasets_metrics, ip, id, iy,
                    yielded, outcome, passes, completed, prev >>

\* lines 101-102: self.duration_summary.observe(duration)
Observe ==
    /\ pc = "collect"
    /\ ip = Len(pools)
    /\ id = Len(datasets)
    /\ duration_summary' = duration_summary + 1
    /\ pc' = "yield"
    /\ UNCHANGED << config, pools_metrics, datasets_metrics, ip, id, iy,
                    yielded, outcome, passes, completed, prev >>

\* one yield of lines 103-108: the sink receives the next series
YieldSeries ==
    /\ pc = "yield"
    /\ iy < Len(AllSeries)
    /\ yielded' = Append(yielded, AllSeries[iy + 1])
    /\ iy' = iy + 1
    /\ UNCHANGED << config, duration_summary, pc, pools_metrics,
                    datasets_metrics, ip, id, outcome, passes, completed, prev >>

\* the generator is exhausted: collect() returns
Finish ==
    /\ pc = "yield"
    /\ iy = Len(AllSeries)
    /\ pc' = "idle"
    /\ outcome' = "ok"
    /\ completed' = completed + 1
    /\ pools_metrics' = << >>
    /\ datasets_metrics' = << >>
    /\ ip' = 0 /\ id' = 0 /\ iy' = 0
    /\ UNCHANGED << config, duration_summary, yielded, passes, prev >>

Next ==
    \/ Begin
    \/ BeginFails
    \/ EnumerateFails
    \/ AddPool
    \/ AddDataset
    \/ Observe
    \/ YieldSeries
    \/ Finish

Spec == Init /\ [][Next]_vars

\* ------------------------------------------------------------- claims
\* a pass has run to the end of the generator and the sink holds its series
Done == pc = "idle" /\ outcome = "ok"

\* the (family, sample) positions of the yielded series called series whose
\* sample carries the label lname = lvalue
Hits(series, lname, lvalue) ==
    UNION { { << i, j >> : j \in { j \in 1..Len(yielded[i].samples) :
                 << lname, lvalue >> \in Range(yielded[i].samples[j].labels) } } :
            i \in { i \in 1..Len(yielded) : yielded[i].name = series } }

\* number of samples the pass produced for dataset name in zfs_dataset_<key>
N(key, name) == Cardinality(Hits("zfs_dataset_" \o key, "dataset", name))

\* the value of the sample for dataset name in zfs_dataset_<key>
V(key, name) ==
    LET h == CHOOSE h \in Hits("zfs_dataset_" \o key, "dataset", name) : TRUE
    IN  yielded[h[1]].samples[h[2]].value

DatasetKeys == {"used_bytes", "usedbydataset_bytes", "available_bytes",
                "atime_enabled", "creation_date", "type", "volsize_bytes"}

\* number of '/'-separated segments of a name, minus one
Slashes(name) == Cardinality({i \in 1..Len(name) : name[i] = "/"})

AtFull(ds) == Slashes(ds.name) < limit

\* every property the pass reads from the hierarchy is there and well-formed,
\* 'atime' and the value of 'type' left aside
Healthy ==
    /\ \A i \in 1..Len(pools) :
          {"size", "allocated", "freeing"} \subseteq DOMAIN pools[i].properties
    /\ \A k \in 1..Len(datasets) :
          LET ds == datasets[k]
          IN  /\ {"used", "usedbydataset", "available", "creation", "type"}
                    \subseteq DOMAIN ds.properties
              /\ ds.properties["creation"].rawvalue # << >>
              /\ \A c \in Range(ds.properties["creation"].rawvalue) :
                    c \in {"0", "1", "2", "3", "4", "5", "6", "7", "8", "9"}
              /\ ds.type = "VOLUME" => "volsize" \in DOMAIN ds.properties

\* C1: after a completed pass a dataset deeper than the limit has no sample in
\* any dataset series, one at the limit has exactly one sample, in used_bytes,
\* and one above the limit has exactly one sample in each of the six catalog
\* series, plus one in volsize_bytes when it is a volume.
C1_DepthPolicy ==
    Done =>
      \A k \in 1..Len(datasets) :
        LET ds == datasets[k]
            d  == Slashes(ds.name)
        IN  /\ d > limit => \A key \in DatasetKeys : N(key, ds.name) = 0
            /\ d = limit =>
                 /\ N("used_bytes", ds.name) = 1
                 /\ \A key \in DatasetKeys \ {"used_bytes"} : N(key, ds.name) = 0
            /\ d < limit =>
                 /\ \A key \in DatasetKeys \ {"volsize_bytes"} : N(key, ds.name) = 1
                 /\ ds.type = "VOLUME" => N("volsize_bytes", ds.name) = 1

\* a completed pass over datasets below, at and above the limit
C1_Witness ==
    /\ Done
    /\ limit = 1
    /\ Len(datasets) = 3
    /\ N("type", datasets[1].name) = 1
    /\ N("used_bytes", datasets[2].name) = 1
    /\ N("used_bytes", datasets[3].name) = 0

\* C2: after a completed pass no dataset series holds a sample for a dataset
\* whose name is in the exclusion set.
C2_ExcludedSuppressed ==
    Done => \A n \in exclude : \A key \in DatasetKeys : N(key, n) = 0

\* C3: a missing property or a value that is not a number on one pool or
\* dataset never aborts the pass: no pass ends with the KeyError or ValueError
\* of a getter.
C3_ErrorsContained == outcome \notin {"KeyError", "ValueError"}

\* C4: a pass the data source fails in hands no series to the sink, and the
\* first series is yielded only when every pool and dataset has been read; a
\* pass counts as completed only with the whole metric set handed over.
C4_NoPartialSet ==
    /\ outcome = "DataSourceUnavailable" => yielded = << >>
    /\ (pc # "idle" /\ yielded # << >>) =>
          pc = "yield" /\ ip = Len(pools) /\ id = Len(datasets)
    /\ Done => Len(yielded) = Len(pmetrics) + Len(dsmetrics) + Len(volmetrics)

\* a pass the data source failed in, following a pass that completed
C4_Witness ==
    /\ pc = "idle"
    /\ outcome = "DataSourceUnavailable"
    /\ passes >= 2
    /\ prev # << >>
    /\ yielded = << >>

\* C5: a dataset at full detail without 'atime' gets atime_enabled = 0, one
\* with 'atime' gets 1 if the parsed value is true and 0 otherwise, and the
\* absence of 'atime' makes no pass fail.
C5_AtimeDefault ==
    /\ Done =>
         \A k \in 1..Len(datasets) :
           LET ds == datasets[k]
           IN  AtFull(ds) =>
                 /\ N("atime_enabled", ds.name) = 1
                 /\ V("atime_enabled", ds.name) =
                      (IF "atime" \notin DOMAIN ds.properties THEN 0
                       ELSE IF ds.properties["atime"].parsed THEN 1 ELSE 0)
    /\ Healthy => outcome \notin {"KeyError", "ValueError"}

\* a completed pass that reported a dataset without 'atime' at full detail
C5_Witness ==
    /\ Done
    /\ \E k \in 1..Len(datasets) :
          /\ AtFull(datasets[k])
          /\ "atime" \notin DOMAIN datasets[k].properties
          /\ V("atime_enabled", datasets[k].name) = 0

\* C6: after a completed pass a dataset has a volsize_bytes sample only if it
\* is a volume reported at full detail; every volsize_bytes sample belongs to
\* such a dataset.
C6_VolsizeOnlyFullVolume ==
    Done =>
      /\ \A k \in 1..Len(datasets) :
            N("volsize_bytes", datasets[k].name) > 0 =>
               datasets[k].type = "VOLUME" /\ AtFull(datasets[k])
      /\ \A i \in 1..Len(yielded) :
            yielded[i].name = "zfs_dataset_volsize_bytes" =>
               Len(yielded[i].samples)
                 = Cardinality({k \in 1..Len(datasets) :
                                  datasets[k].type = "VOLUME" /\ AtFull(datasets[k])})

\* a completed pass over a volume at the limit, which gets used_bytes only
C6_Witness ==
    /\ Done
    /\ \E k \in 1..Len(datasets) :
          /\ datasets[k].type = "VOLUME"
          /\ Slashes(datasets[k].name) = limit
          /\ N("used_bytes", datasets[k].name) = 1
          /\ N("volsize_bytes", datasets[k].name) = 0

\* C7: a dataset at full detail gets exactly one 'type' sample: 0 for
\* filesystem, 1 for volume, 2 for snapshot, 3 for bookmark and -1 for any
\* other parsed type, and an unknown type makes no pass fail.
C7_TypeCode ==
    /\ Done =>
         \A k \in 1..Len(datasets) :
           LET ds == datasets[k]
               t  == ds.properties["type"].parsed
           IN  AtFull(ds) =>
                 /\ N("type", ds.name) = 1
                 /\ t = "filesystem" => V("type", ds.name) = 0
                 /\ t = "volume"     => V("type", ds.name) = 1
                 /\ t = "snapshot"   => V("type", ds.name) = 2
                 /\ t = "bookmark"   => V("type", ds.name) = 3
                 /\ t \notin {"filesystem", "volume", "snapshot", "bookmark"}
                      => V("type", ds.name) = -1
    /\ (Healthy /\ pc = "idle" /\ passes > 0)
          => outcome \in {"ok", "DataSourceUnavailable"}

\* a completed pass that reported a dataset of unknown type at full detail
C7_Witness ==
    /\ Done
    /\ \E k \in 1..Len(datasets) :
          /\ AtFull(datasets[k])
          /\ datasets[k].properties["type"].parsed = "pool"
          /\ V("type", datasets[k].name) = -1

\* C8: the collector holds one latency observation per completed pass; the
\* observation of a pass is made once all pools and datasets are read and
\* before its first series is yielded, and an aborted pass makes none.
C8_OneObservationPerPass ==
    /\ pc = "idle"    => duration_summary = completed
    /\ pc = "collect" => duration_summary = completed /\ yielded = << >>
    /\ pc = "yield"   => /\ duration_summary = completed + 1
                         /\ ip = Len(pools) /\ id = Len(datasets)

\* two passes completed and one aborted on the same collector
C8_Witness ==
    /\ pc = "idle"
    /\ passes = 3
    /\ completed = 2
    /\ duration_summary = 2

\* C9: a completed pass hands over the same metric set as the completed pass
\* before it, whatever passes aborted in between.
C9_Idempotent == (Done /\ prev # << >>) => yielded = prev

\* a completed pass, an aborted one, and a completed one with samples
C9_Witness ==
    /\ Done
    /\ passes = 3
    /\ completed = 2
    /\ prev # << >>
    /\ N("used_bytes", TANK) = 1

\* value of the sample labelled pool = name in series, when there is one
PoolValue(series, name) ==
    LET h == CHOOSE h \in Hits(series, "pool", name) : TRUE
    IN  yielded[h[1]].samples[h[2]].value

\* C10: after a completed pass each pool has exactly one sample in each of
\* zfs_pool_size_bytes, zfs_pool_allocated_bytes and zfs_pool_freeing_bytes,
\* with the parsed value of its size, allocated and freeing property; with no
\* datasets no dataset series holds a sample.
C10_PoolSamples ==
    Done =>
      /\ \A i \in 1..Len(pools) :
           LET pool == pools[i]
           IN  /\ Cardinality(Hits("zfs_pool_size_bytes", "pool", pool.name)) = 1
               /\ Cardinality(Hits("zfs_pool_allocated_bytes", "pool", pool.name)) = 1
               /\ Cardinality(Hits("zfs_pool_freeing_bytes", "pool", pool.name)) = 1
               /\ PoolValue("zfs_pool_size_bytes", pool.name)
                    = pool.properties["size"].parsed
               /\ PoolValue("zfs_pool_allocated_bytes", pool.name)
                    = pool.properties["allocated"].parsed
               /\ PoolValue("zfs_pool_freeing_bytes", pool.name)
                    = pool.properties["freeing"].parsed
      /\ datasets = << >> =>
           \A i \in 1..Len(yielded) :
              yielded[i].name \notin {"zfs_pool_size_bytes", "zfs_pool_allocated_bytes",
                                      "zfs_pool_freeing_bytes"}
                 => yielded[i].samples = << >>

\* a completed pass over two pools and no dataset
C10_Witness ==
    /\ Done
    /\ Len(pools) = 2
    /\ datasets = << >>
    /\ PoolValue("zfs_pool_allocated_bytes", ZROOT) = 8

====
